---- MODULE Spec2Model ----
(***************************************************************************)
(* Model of nginx_dashboard.py: the access-log parser (parse_nginx_log),   *)
(* the PHP error-log parser (parse_php_error_log), the security detectors  *)
(* and the high-error-IP table of the "Security" tab.                      *)
(*                                                                         *)
(* Text is modelled as a sequence of one-character strings, and every      *)
(* regular expression of the source as a sequence of quantified character  *)
(* classes matched with Python's backtracking order (greedy: longest       *)
(* first, lazy: shortest first).                                           *)
(***************************************************************************)
EXTENDS Integers, Sequences, FiniteSets, TLC

VARIABLES
    pc,             \* position of the running script / function
    lines,          \* f.readlines() of the access log (parse_nginx_log)
    idx,            \* 1-based position of the `for line in lines` loop
    parsed_data,    \* the list of dicts parse_nginx_log appends to
    origin,         \* history: for each element of parsed_data, the line it came from
    df,             \* the DataFrame handed to the tabs and detectors
    df0,            \* history: df as it was when the tabs started
    high_error_ips, \* result table of the Security tab
    brute_force_suspects,   \* result of detect_brute_force
    sql_injection_df,       \* result of detect_sql_injection
    xss_df,                 \* result of detect_xss
    raised,         \* name of the function an exception escaped from, or "" if none
    php_lines,      \* the lines of the PHP error log
    php_idx,        \* position of the `for line in f` loop
    parsed,         \* the list parse_php_error_log appends to
    php_df,         \* the frame parse_php_error_log returns
    session_state,  \* st.session_state: the keys that are set, with their values
    site_logs,      \* the directories under ~/site-logs, or None when it does not exist
    button,         \* the button pressed for the running script, "" for none
    site_name,      \* value of the "Site Name" widget in the running script
    env,            \* value of the "Environment" widget in the running script
    site_uuid,      \* result of get_site_uuid in the Collect Logs handler
    app_servers,    \* number of servers `dig` has named to collect_logs
    fetched,        \* number of servers collect_logs has fetched the logs of
    tabs            \* whether the last run of the script has rendered the analysis tabs

\* the state of the sidebar and of the page gate
ui_vars == <<session_state, site_logs, button, site_name, env, site_uuid, app_servers, fetched,
             tabs>>

\* the state of the parsers, tabs and detectors
data_vars == <<lines, idx, parsed_data, origin, df, df0, high_error_ips,
               brute_force_suspects, sql_injection_df, xss_df, raised,
               php_lines, php_idx, parsed, php_df>>

vars == <<pc, data_vars, ui_vars>>

----------------------------------------------------------------------------
(* Bounds of the model *)

\* longest log file, in lines
MaxLines == 2
\* how many fields of a file may deviate from the well-formed line
MaxDev == 1

----------------------------------------------------------------------------
(* Characters *)

DigitSeq == <<"0","1","2","3","4","5","6","7","8","9">>
UpperSeq == <<"A","B","C","D","E","F","G","H","I","J","K","L","M","N","O","P","Q","R","S","T","U","V","W","X","Y","Z">>
LowerSeq == <<"a","b","c","d","e","f","g","h","i","j","k","l","m","n","o","p","q","r","s","t","u","v","w","x","y","z">>

Range(f) == {f[i] : i \in DOMAIN f}

Digit == Range(DigitSeq)
Upper == Range(UpperSeq)
Lower == Range(LowerSeq)
Space == {" ", "\t", "\n"}
Punct == {"\"", "[", "]", ",", ".", ":", "/", "-", "+", "<", ">", "=", "?", "_", "(", ")"}
Alphabet == Digit \cup Upper \cup Lower \cup Space \cup Punct

IndexOf(c, f) == CHOOSE i \in DOMAIN f : f[i] = c

\* str.lower() on one character and on a string
LowerChar(c) == IF c \in Upper THEN LowerSeq[IndexOf(c, UpperSeq)] ELSE c
UpperChar(c) == IF c \in Lower THEN UpperSeq[IndexOf(c, LowerSeq)] ELSE c
lower(s) == [i \in 1..Len(s) |-> LowerChar(s[i])]

Max(S) == CHOOSE n \in S : \A m \in S : m <= n
Min(S) == CHOOSE n \in S : \A m \in S : n <= m

\* Python's None / pandas' NaN, and a present value
None == [present |-> FALSE]
Some(v) == [present |-> TRUE, val |-> v]

----------------------------------------------------------------------------
(* Regular expressions: a pattern is a sequence of items, each a character *)
(* class with a repetition range, or the anchor $.  hi = -1 is unbounded.  *)

Rep(cls, lo, hi, greedy) == [anchor |-> "", cls |-> cls, lo |-> lo, hi |-> hi, greedy |-> greedy]
One(cls)      == Rep(cls, 1, 1, TRUE)
Lit(c)        == One({c})
Star(cls)     == Rep(cls, 0, -1, TRUE)
Plus(cls)     == Rep(cls, 1, -1, TRUE)
LazyStar(cls) == Rep(cls, 0, -1, FALSE)
EndAnchor     == [anchor |-> "$", cls |-> {}, lo |-> 0, hi |-> 0, greedy |-> TRUE]

NoMatch == <<>>

\* number of consecutive characters of s from position p that are in cls, at most cap
RunLen(s, p, cls, cap) ==
    LET room == Len(s) - p + 1
        limit == IF cap < 0 \/ room < cap THEN room ELSE cap
    IN  Min({i \in p..(p + limit - 1) : s[i] \notin cls} \cup {p + limit}) - p

\* $ : at the end of the string, or just before a newline that ends it
AtEnd(s, p) == p = Len(s) + 1 \/ (p = Len(s) /\ s[p] = "\n")

\* The match of items k.. of re at position p of s: the start position of each
\* item followed by the end of the match, or NoMatch.  Of the repetition counts
\* of item k after which the rest of the pattern matches, the backtracking
\* matcher keeps the one it tries first: the largest for a greedy item, the
\* smallest for a lazy one.
RECURSIVE MatchFrom(_, _, _, _)
MatchFrom(re, k, s, p) ==
    IF k > Len(re) THEN <<p>>
    ELSE IF re[k].anchor = "$" THEN
        LET rest == MatchFrom(re, k + 1, s, p)
        IN  IF AtEnd(s, p) /\ rest # NoMatch THEN <<p>> \o rest ELSE NoMatch
    ELSE
        LET run   == RunLen(s, p, re[k].cls, re[k].hi)
            tries == {<<n, MatchFrom(re, k + 1, s, p + n)>> : n \in re[k].lo..run}
            good  == {t \in tries : t[2] # NoMatch}
            first == CHOOSE t \in good :
                        \A u \in good : IF re[k].greedy THEN t[1] >= u[1] ELSE t[1] <= u[1]
        IN  IF good = {} THEN NoMatch ELSE <<p>> \o first[2]

\* pattern.match(s): anchored at the start
re_match(re, s) == MatchFrom(re, 1, s, 1)

\* re.search from position p: the leftmost match (a match of a pattern whose
\* first item is not optional starts at a character of that item's class)
SearchFrom(re, s, p) ==
    LET starts == {q \in p..(Len(s) + 1) :
                      \/ re[1].anchor = "$"
                      \/ re[1].lo = 0
                      \/ (q <= Len(s) /\ s[q] \in re[1].cls)}
        found == {<<q, MatchFrom(re, 1, s, q)>> : q \in starts}
        good  == {t \in found : t[2] # NoMatch}
        first == CHOOSE t \in good : \A u \in good : t[1] <= u[1]
    IN  IF good = {} THEN NoMatch ELSE first[2]

re_search(re, s) == SearchFrom(re, s, 1)

\* the text item k of the pattern matched
Group(s, m, k) == SubSeq(s, m[k], m[k + 1] - 1)
MatchEnd(m) == m[Len(m)]

\* re.findall for a pattern with one group (item g): the non-overlapping
\* matches from left to right
RECURSIVE FindAllFrom(_, _, _, _)
FindAllFrom(re, s, p, g) ==
    LET m == SearchFrom(re, s, p)
    IN  IF m = NoMatch THEN <<>>
        ELSE <<Group(s, m, g)>> \o FindAllFrom(re, s, MatchEnd(m), g)

re_findall(re, s, g) == FindAllFrom(re, s, 1, g)

----------------------------------------------------------------------------
(* String helpers *)

\* int() of a string of decimal digits
RECURSIVE int(_)
int(s) ==
    IF Len(s) = 0 THEN 0
    ELSE 10 * int(SubSeq(s, 1, Len(s) - 1)) + (IndexOf(s[Len(s)], DigitSeq) - 1)

\* str.strip()
RECURSIVE strip(_)
strip(s) ==
    IF Len(s) = 0 THEN s
    ELSE IF s[1] \in Space THEN strip(Tail(s))
    ELSE IF s[Len(s)] \in Space THEN strip(SubSeq(s, 1, Len(s) - 1))
    ELSE s

\* str.split(): the maximal runs of non-whitespace characters
RECURSIVE split(_)
split(s) ==
    IF Len(s) = 0 THEN <<>>
    ELSE IF s[1] \in Space THEN split(Tail(s))
    ELSE LET n == RunLen(s, 1, Alphabet \ Space, -1)
         IN  <<SubSeq(s, 1, n)>> \o split(SubSeq(s, n + 1, Len(s)))

\* s.split(sep)[0]: the text before the first separator
FirstField(s, sep) == SubSeq(s, 1, RunLen(s, 1, Alphabet \ {sep}, -1))

----------------------------------------------------------------------------
(* parse_nginx_log: the patterns of the loop body *)

\* r'"([^"]*)"'  (group: item 2)
quoted_re == <<Lit("\""), Star(Alphabet \ {"\""}), Lit("\"")>>

\* r'\[([^\]]+)\]'  (group: item 2)
bracketed_re == <<Lit("["), Plus(Alphabet \ {"]"}), Lit("]")>>

\* variant of status_re: r'"\s+(\d{3})\s+(\d+)\s'
status_re_spaced == <<Lit("\""), Plus(Space), Rep(Digit, 3, 3, TRUE), Plus(Space), Plus(Digit), One(Space)>>

\* variant of status_re: r'"\s*(\d{3,})\s+(\d+)\s'
status_re_longer == <<Lit("\""), Star(Space), Rep(Digit, 3, -1, TRUE), Plus(Space), Plus(Digit), One(Space)>>

\* r'"\s*(\d{3})\s+(\d+)\s'  (groups: items 3 and 5)
status_re == <<Lit("\""), Star(Space), Rep(Digit, 3, 3, TRUE), Plus(Space), Plus(Digit), One(Space)>>

\* r'" ([\d\.]+) "'  (group: item 3)
req_time_re == <<Lit("\""), Lit(" "), Plus(Digit \cup {"."}), Lit(" "), Lit("\"")>>

\* r"^\d{1,3}(\.\d{1,3}){3}$|^[a-fA-F0-9:]+$": the two alternatives, tried in order
HexColon == Digit \cup Range(<<"a","b","c","d","e","f","A","B","C","D","E","F">>) \cup {":"}
\* variant of ip_regex: the IPv4 alternative without its closing $
ip_regex_open == <<
    <<Rep(Digit, 1, 3, TRUE), Lit("."), Rep(Digit, 1, 3, TRUE), Lit("."), Rep(Digit, 1, 3, TRUE),
      Lit("."), Rep(Digit, 1, 3, TRUE)>>,
    <<Plus(HexColon), EndAnchor>> >>

ip_regex == <<
    <<Rep(Digit, 1, 3, TRUE), Lit("."), Rep(Digit, 1, 3, TRUE), Lit("."), Rep(Digit, 1, 3, TRUE),
      Lit("."), Rep(Digit, 1, 3, TRUE), EndAnchor>>,
    <<Plus(HexColon), EndAnchor>> >>

\* ip_regex.match(s) is not None
ip_regex_match(s) == \E a \in DOMAIN ip_regex : re_match(ip_regex[a], s) # NoMatch

\* datetime.strptime(s, '%d/%b/%Y:%H:%M:%S %z'): the layout, then the ranges
\* of the fields; None stands for the ValueError the caller catches.
strptime_re == <<Rep(Digit, 1, 2, TRUE), Lit("/"), Rep(Upper \cup Lower, 3, 3, TRUE), Lit("/"),
                 Rep(Digit, 4, 4, TRUE), Lit(":"), Rep(Digit, 1, 2, TRUE), Lit(":"),
                 Rep(Digit, 1, 2, TRUE), Lit(":"), Rep(Digit, 1, 2, TRUE), Plus(Space),
                 One({"+", "-"}), Rep(Digit, 2, 2, TRUE), Rep(Digit, 2, 2, TRUE)>>

MonthNames == <<<<"j","a","n">>, <<"f","e","b">>, <<"m","a","r">>, <<"a","p","r">>, <<"m","a","y">>, <<"j","u","n">>, <<"j","u","l">>, <<"a","u","g">>, <<"s","e","p">>, <<"o","c","t">>, <<"n","o","v">>, <<"d","e","c">>>>

IsLeap(y) == (y % 4 = 0 /\ y % 100 # 0) \/ y % 400 = 0
DaysIn(m, y) == IF m = 2 THEN (IF IsLeap(y) THEN 29 ELSE 28)
                ELSE IF m \in {4, 6, 9, 11} THEN 30 ELSE 31

strptime(s) ==
    LET m == re_match(strptime_re, s)
        f(k) == Group(s, m, k)
    IN  IF m = NoMatch \/ MatchEnd(m) # Len(s) + 1 THEN None
        ELSE IF lower(f(3)) \notin Range(MonthNames) THEN None
        ELSE LET day == int(f(1))
                 mon == IndexOf(lower(f(3)), MonthNames)
                 year == int(f(5))
                 hour == int(f(7))
                 minute == int(f(9))
                 second == int(f(11))
                 off == (IF f(13) = <<"-">> THEN -1 ELSE 1) * (60 * int(f(14)) + int(f(15)))
             IN  IF year < 1 \/ day < 1 \/ day > DaysIn(mon, year) \/ hour > 23 \/ minute > 59
                    \/ second > 59 \/ int(f(15)) > 59
                 THEN None
                 ELSE Some([year |-> year, month |-> mon, day |-> day, hour |-> hour,
                            minute |-> minute, second |-> second, utcoffset |-> off])

\* The body of `for line in lines` (lines 20-70): the record the line yields,
\* or Skip when the line is passed over (`continue`).
Skip == [emit |-> FALSE]
Emit(r) == [emit |-> TRUE, rec |-> r]

\* variant of required_fields: a line whose timestamp does not parse is passed over too
required_fields_timed(quoted, bracketed) ==
    /\ ~(Len(quoted) < 4 \/ Len(bracketed) < 1)
    /\ strptime(bracketed[1]).present

\* line 23: the fields a line must have (when FALSE the loop body `continue`s)
required_fields(quoted, bracketed) == ~(Len(quoted) < 4 \/ Len(bracketed) < 1)

parse_line(line) ==
    LET quoted == re_findall(quoted_re, line, 2)
        bracketed == re_findall(bracketed_re, line, 2)
    IN  IF ~required_fields(quoted, bracketed) THEN Skip
        ELSE
        LET time_str == bracketed[1]
            request == quoted[1]
            referrer == quoted[2]
            user_agent == quoted[3]
            proxy_chain == quoted[4]
            status_match == re_search(status_re, line)
            status == IF status_match # NoMatch THEN Some(int(Group(line, status_match, 3))) ELSE None
            size == IF status_match # NoMatch THEN Some(int(Group(line, status_match, 5))) ELSE None
            req_time_match == re_search(req_time_re, line)
            req_time == IF req_time_match # NoMatch THEN Some(Group(line, req_time_match, 3)) ELSE None
            req_parts == split(request)
            three == Len(req_parts) = 3
            time == strptime(time_str)
            real_ip == IF Len(proxy_chain) > 0 THEN strip(FirstField(proxy_chain, ",")) ELSE <<"-">>
            ip == IF ip_regex_match(real_ip) THEN real_ip ELSE <<"-">>
        IN  Emit([ip |-> ip,
                  time |-> time,
                  method |-> IF three THEN req_parts[1] ELSE <<>>,
                  path |-> IF three THEN req_parts[2] ELSE <<>>,
                  protocol |-> IF three THEN req_parts[3] ELSE <<>>,
                  status |-> status,
                  size |-> size,
                  referrer |-> referrer,
                  user_agent |-> user_agent,
                  req_time |-> req_time,
                  proxy_chain |-> proxy_chain])

----------------------------------------------------------------------------
(* The access-log files the model reads: up to MaxLines lines, each the     *)
(* well-formed line (the first alternative of every field) with at most     *)
(* MaxDev fields of the file replaced by another alternative.               *)

LineFields == <<
    \* remote address, ident, user
    << <<"-"," ">> >>,
    \* [time_local]
    << <<"[","1","2","/","J","a","n","/","2","0","2","4",":","0","0",":","0","0",":","0","0"," ","+","0","0","0","0","]"," ">>, <<"[","3","1","/","F","e","b","/","2","0","2","4",":","0","0",":","0","0",":","0","0"," ","+","0","0","0","0","]"," ">>, <<"[","x","]"," ">>, <<"[","]"," ">>, <<>> >>,
    \* "request"
    << <<"\"","G","E","T"," ","/","w","p","-","l","o","g","i","n",".","p","h","p"," ","H","T","T","P","/","1",".","1","\"">>, <<"\"","G","E","T"," ","/","a","\"">>, <<"\"","\"">>, <<"G","E","T"," ","/"," ","H","T","T","P","/","1",".","1">> >>,
    \* status body_bytes_sent
    << <<" ","4","0","1"," ","0"," ">>, <<" ","9","9","9"," ","1","2"," ">>, <<" ","0","9","9"," ","5"," ">>, <<" ","4","0"," ","5"," ">>, <<" ","4","0","1","1"," ","5"," ">>, <<" ","-"," ","-"," ">>, <<"4","0","1"," ","0"," ">> >>,
    \* "http_referer"
    << <<"\"","-","\"">>, <<"\"","h","t","t","p",":","/","/","x","/","?","q","=","O","r","\"">> >>,
    \* "http_user_agent"
    << <<" ","\"","c","u","r","l","\"">>, <<" ","\"","2","0","0"," ","5"," ","b","o","t","\"">>, <<" ">> >>,
    \* request_time
    << <<" ","0",".","1","2","3"," ">>, <<" ","-"," ">>, <<" ">> >>,
    \* "http_x_forwarded_for" (the proxy chain)
    << <<"\"","9",".","9",".","9",".","9",","," ","1",".","1",".","1",".","1","\"">>, <<"\""," ","8",".","8",".","8",".","8"," ",",","1",".","1",".","1",".","1","\"">>, <<"\"","n","o","t","-","a","n","-","i","p","\"">>, <<"\"","\"">>, <<"\""," ","\"">>, <<"\"","f","e","8","0",":",":","1","\"">>,
       <<"\"","b","a","d","\"">>, <<"\"","1",".","2",".","3","\"">>, <<"\"","1","2","3","4",".","1",".","1",".","1","\"">>, <<"\"","9",".","9",".","9",".","9","x","\"">>, <<"\"","1",".","2",".","3",".","4",".","5","\"">>, <<>> >>,
    \* end of line
    << <<"\n">>, <<>> >>
>>

\* a deviation <<l, k, a>>: field k of line l is its alternative a
AllDevs(fields, n) ==
    UNION {{<<l, k, a>> : l \in 1..n, a \in 2..Len(fields[k])} : k \in DOMAIN fields}

RECURSIVE DevSets(_, _, _)
DevSets(fields, n, d) ==
    IF d = 0 THEN {{}}
    ELSE DevSets(fields, n, d - 1)
         \cup {D \cup {x} : D \in DevSets(fields, n, d - 1), x \in AllDevs(fields, n)}

AltOf(D, l, k) ==
    LET as == {x[3] : x \in {y \in D : y[1] = l /\ y[2] = k}}
    IN  IF as = {} THEN 1 ELSE Max(as)

RECURSIVE LineFrom(_, _, _, _)
LineFrom(fields, D, l, k) ==
    IF k > Len(fields) THEN <<>>
    ELSE fields[k][AltOf(D, l, k)] \o LineFrom(fields, D, l, k + 1)

FileOf(fields, n, D) == [l \in 1..n |-> LineFrom(fields, D, l, 1)]

FilesOf(fields) ==
    UNION {{FileOf(fields, n, D) : D \in DevSets(fields, n, MaxDev)} : n \in 0..MaxLines}

Files == FilesOf(LineFields)

----------------------------------------------------------------------------
(* pandas: a DataFrame is its column names and its rows (records over the   *)
(* columns).  NaN is the missing value of a text column; a numeric column   *)
(* holds Some(n) or None.                                                   *)

NaN == <<"NaN">>
isna(v) == v = NaN

DataFrame(columns, rows) == [columns |-> columns, rows |-> rows]
EmptyFrame == DataFrame(<<>>, <<>>)
empty(d) == Len(d.rows) = 0

\* the keys of the dicts appended at lines 56-68
RecordColumns == <<"ip", "time", "method", "path", "protocol", "status", "size", "referrer",
                   "user_agent", "req_time", "proxy_chain">>

\* pd.to_numeric(x, errors='coerce') of an int or None: the number, or NaN
to_numeric(v) == IF v.present THEN Some(v.val) ELSE None

\* df[name] = values
SetColumn(d, name, values) ==
    DataFrame(IF name \in Range(d.columns) THEN d.columns ELSE Append(d.columns, name),
              [i \in 1..Len(d.rows) |->
                  [c \in DOMAIN d.rows[i] \cup {name} |->
                      IF c = name THEN values[i] ELSE d.rows[i][c]]])

\* the subsequence of the rows of s whose index satisfies keep
SelectRows(s, keep) ==
    LET kept == {i \in 1..Len(s) : keep[i]}
        nth(j) == CHOOSE i \in kept : Cardinality({h \in kept : h < i}) = j - 1
    IN  [j \in 1..Cardinality(kept) |-> s[nth(j)]]

\* df[mask]: a mask that holds a missing value is refused (ValueError)
HasNA(mask) == \E i \in DOMAIN mask : ~mask[i].present
Mask(d, mask) == DataFrame(d.columns, SelectRows(d.rows, [i \in DOMAIN mask |-> mask[i].val]))

\* pat in s
Contains(s, pat) == \E i \in 1..(Len(s) - Len(pat) + 1) : SubSeq(s, i, i + Len(pat) - 1) = pat

\* Series.str.contains('|'.join(pats), case=..., na=...) on one value: Some(bool),
\* or `na` for a missing value
str_contains(v, pats, case, na) ==
    IF isna(v) THEN na
    ELSE Some(\E k \in DOMAIN pats :
                 IF case THEN Contains(v, pats[k]) ELSE Contains(lower(v), lower(pats[k])))

\* Series.isin(values) on one numeric value: a missing value is in no list
isin(v, values) == v.present /\ v.val \in values

\* Series.isin(values) as a mask element
isin_mask(v, values) == Some(isin(v, values))

truth(a) == a.present /\ a.val

\* variant of logical_and: a missing operand makes the result missing
logical_and_na(a, b) == IF a.present /\ b.present THEN Some(a.val /\ b.val) ELSE None

\* `a & b` and `a | b` of two Series of True/False/NaN, elementwise: pandas
\* evaluates a missing operand as False, so the result is boolean
logical_and(a, b) == Some(truth(a) /\ truth(b))
logical_or(a, b) == Some(truth(a) \/ truth(b))

----------------------------------------------------------------------------
(* The session state of the page and the directories of collected logs *)

\* most app servers `dig` names for one environment
MaxServers == 1

\* the keys of st.session_state: a name and, for the environment cache, the site
Key(name, site) == <<name, site>>
K_site_name == Key("site_name", <<>>)
K_env == Key("env", <<>>)
K_site_list == Key("site_list", <<>>)
env_cache_key(site) == Key("env_list_", site)

EmptySession == [k \in {} |-> <<>>]
has(ss, k) == k \in DOMAIN ss
set(ss, k, v) == [x \in DOMAIN ss \cup {k} |-> IF x = k THEN v ELSE ss[x]]
del(ss, k) == [x \in DOMAIN ss \ {k} |-> ss[x]]

\* ~/site-logs/{site_name}_{env}, as the name of the directory under ~/site-logs
logs_dir_of(site, e) == site \o <<"_">> \o e

\* os.path.exists of a directory under ~/site-logs
exists(fs, dir) == fs.present /\ dir \in fs.val

\* the sites of the hosting account and their environments
Sites == {[name |-> <<"a">>, uuid |-> <<"u","1">>]}
Envs == <<<<"d","e","v">>, <<"l","i","v","e">>>>

\* lines 105-115: the sorted site names, or [] when terminus fails
get_site_list == {<<<<"a">>>>, <<>>}

\* lines 117-127: the sorted environments, or [] when terminus fails
get_env_list(site) == {<<>>} \cup (IF \E s \in Sites : lower(s.name) = lower(site) THEN {Envs} ELSE {})

\* lines 129-139: the UUID of the site of that name (letter case ignored), or
\* None when there is none or terminus fails
get_site_uuid(site) == {None} \cup {Some(s.uuid) : s \in {s \in Sites : lower(s.name) = lower(site)}}

\* what the user may type into the text inputs
SiteInputs == {<<"a">>, <<"z","z">>, <<>>}
EnvInputs == {<<"d","e","v">>, <<"l","i","v","e">>}

Buttons == {"", "Collect Logs", "Clear Logs", "Generate Report"}

\* no page is open
NoSession ==
    /\ session_state = EmptySession
    /\ site_logs = None
    /\ button = ""
    /\ site_name = <<>>
    /\ env = <<>>
    /\ site_uuid = None
    /\ app_servers = 0
    /\ fetched = 0
    /\ tabs = FALSE

----------------------------------------------------------------------------
(* parse_nginx_log as a state machine *)

Init ==
    /\ pc = "parse"
    /\ lines \in Files
    /\ idx = 1
    /\ parsed_data = <<>>
    /\ origin = <<>>
    /\ df = EmptyFrame
    /\ df0 = EmptyFrame
    /\ high_error_ips = <<>>
    /\ brute_force_suspects = {}
    /\ sql_injection_df = EmptyFrame
    /\ xss_df = EmptyFrame
    /\ raised = ""
    /\ php_lines = <<>>
    /\ php_idx = 1
    /\ parsed = <<>>
    /\ php_df = EmptyFrame
    /\ NoSession

\* lines 19-68: the line yields a record, which is appended
AppendRecord ==
    /\ pc = "parse"
    /\ idx <= Len(lines)
    /\ parse_line(lines[idx]).emit
    /\ parsed_data' = Append(parsed_data, parse_line(lines[idx]).rec)
    /\ origin' = Append(origin, idx)
    /\ idx' = idx + 1
    /\ UNCHANGED <<ui_vars, pc, lines, df, df0, high_error_ips, brute_force_suspects, sql_injection_df,
                   xss_df, raised, php_lines, php_idx, parsed, php_df>>

\* variant of SkipLine: `break` in place of `continue`
SkipLineBreak ==
    /\ pc = "parse"
    /\ idx <= Len(lines)
    /\ ~parse_line(lines[idx]).emit
    /\ idx' = Len(lines) + 1
    /\ UNCHANGED <<ui_vars, pc, lines, parsed_data, origin, df, df0, high_error_ips, brute_force_suspects,
                   sql_injection_df, xss_df, raised, php_lines, php_idx, parsed, php_df>>

\* lines 23-24: `continue`
SkipLine ==
    /\ pc = "parse"
    /\ idx <= Len(lines)
    /\ ~parse_line(lines[idx]).emit
    /\ idx' = idx + 1
    /\ UNCHANGED <<ui_vars, pc, lines, parsed_data, origin, df, df0, high_error_ips, brute_force_suspects,
                   sql_injection_df, xss_df, raised, php_lines, php_idx, parsed, php_df>>

----------------------------------------------------------------------------
(* The page script after parsing: lines 307-337 for one server directory *)

\* get_extension, lines 329-335
LastIndexOf(s, c) == IF c \in Range(s) THEN Max({i \in 1..Len(s) : s[i] = c}) ELSE 0
get_extension(path) ==
    IF isna(path) THEN <<>>
    ELSE LET p == FirstField(path, "?")
             lastseg == SubSeq(p, LastIndexOf(p, "/") + 1, Len(p))
         IN  IF "." \in Range(lastseg) THEN lower(SubSeq(p, LastIndexOf(p, ".") + 1, Len(p)))
             ELSE <<>>

server_dir == <<"a","p","p","_","s","e","r","v","e","r","_","1">>

\* lines 71-74: the list becomes a frame and status is made numeric
ReturnFrame ==
    /\ pc = "parse"
    /\ idx > Len(lines)
    /\ df' = IF Len(parsed_data) = 0 THEN EmptyFrame
             ELSE DataFrame(RecordColumns,
                            [i \in 1..Len(parsed_data) |->
                                [parsed_data[i] EXCEPT !.status = to_numeric(@)]])
    /\ pc' = "collect"
    /\ UNCHANGED <<ui_vars, lines, idx, parsed_data, origin, df0, high_error_ips, brute_force_suspects,
                   sql_injection_df, xss_df, raised, php_lines, php_idx, parsed, php_df>>

\* lines 312-315, 325-337: an empty frame is dropped and no tab is filled;
\* otherwise the frame gets its server and extension columns
CollectFrames ==
    /\ pc = "collect"
    /\ IF empty(df)
       THEN /\ pc' = "done"
            /\ df' = df
       ELSE /\ pc' = "tab4"
            /\ df' = LET d1 == SetColumn(df, "server", [i \in 1..Len(df.rows) |-> server_dir])
                         d2 == [d1 EXCEPT !.rows = [i \in 1..Len(d1.rows) |->
                                                      [d1.rows[i] EXCEPT !.status = to_numeric(@)]]]
                     IN  SetColumn(d2, "extension",
                                   [i \in 1..Len(d2.rows) |-> get_extension(d2.rows[i].path)])
    /\ UNCHANGED <<ui_vars, lines, idx, parsed_data, origin, df0, high_error_ips, brute_force_suspects,
                   sql_injection_df, xss_df, raised, php_lines, php_idx, parsed, php_df>>

----------------------------------------------------------------------------
(* Security tab, lines 414-420: IPs with a high error rate *)

\* status >= 400 at line 416
ErrorStatus == 400
\* total_requests > 10 at line 419
MinRequests == 10
\* head(10) at line 420
TopIps == 10

\* Series.count(): the values that are not missing
count(rows, col) == Cardinality({i \in 1..Len(rows) : rows[i][col].present})

\* (x >= 400).sum(): a missing value compares False
error_sum(rows) ==
    Cardinality({i \in 1..Len(rows) : rows[i].status.present /\ rows[i].status.val >= ErrorStatus})

\* the rows of one group of df.groupby(col)
GroupRows(d, col, key) == SelectRows(d.rows, [i \in 1..Len(d.rows) |-> d.rows[i][col] = key])

\* groupby drops the rows whose key is missing
GroupKeys(d, col) == {d.rows[i][col] : i \in 1..Len(d.rows)} \ {NaN}

\* lines 414-418; error_rate is kept as the fraction error_requests / total_requests
error_stats(d) ==
    {[ip |-> k,
      total_requests |-> count(GroupRows(d, "ip", k), "status"),
      error_requests |-> error_sum(GroupRows(d, "ip", k))] : k \in GroupKeys(d, "ip")}

\* error_rate > 0.5: 0/0 is NaN, which compares False
RateAboveHalf(r) == r.total_requests > 0 /\ 2 * r.error_requests > r.total_requests

\* error_rate of a >= error_rate of b, for rows with requests
RateGeq(a, b) == a.error_requests * b.total_requests >= b.error_requests * a.total_requests

\* line 419
high_error_filter(stats) == {r \in stats : RateAboveHalf(r) /\ r.total_requests > MinRequests}

\* sort_values('error_rate', ascending=False): the order of rows with equal
\* rates is whatever the sort leaves, so every descending arrangement is possible
SortedDescending(S) ==
    {s \in [1..Cardinality(S) -> S] :
        /\ \A i, j \in DOMAIN s : i # j => s[i] # s[j]
        /\ \A i, j \in DOMAIN s : i < j => RateGeq(s[i], s[j])}

\* head(n)
head(s, n) == SubSeq(s, 1, IF Len(s) < n THEN Len(s) ELSE n)

HighErrorIps ==
    /\ pc = "tab4"
    /\ \E s \in SortedDescending(high_error_filter(error_stats(df))) :
          high_error_ips' = head(s, TopIps)
    /\ pc' = "tab6"
    /\ UNCHANGED <<ui_vars, lines, idx, parsed_data, origin, df, df0, brute_force_suspects,
                   sql_injection_df, xss_df, raised, php_lines, php_idx, parsed, php_df>>

----------------------------------------------------------------------------
(* Bot tab, line 474: the is_bot column *)

bot_keywords == <<<<"b","o","t">>, <<"s","p","i","d","e","r">>, <<"c","r","a","w","l">>, <<"s","l","u","r","p">>, <<"b","a","i","d","u">>, <<"b","i","n","g","p","r","e","v","i","e","w">>, <<"d","u","c","k","d","u","c","k","b","o","t">>,
                  <<"y","a","n","d","e","x">>, <<"s","o","g","o","u">>, <<"e","x","a","b","o","t">>, <<"f","a","c","e","b","o","t">>, <<"i","a","_","a","r","c","h","i","v","e","r">>, <<"m","j","1","2","b","o","t">>, <<"a","h","r","e","f","s","b","o","t">>,
                  <<"s","e","m","r","u","s","h","b","o","t">>, <<"d","o","t","b","o","t">>, <<"g","i","g","a","b","o","t">>, <<"s","e","z","n","a","m","b","o","t">>, <<"p","a","n","s","c","i","e","n","t">>, <<"a","p","p","l","e","b","o","t">>,
                  <<"p","e","t","a","l","b","o","t">>, <<"g","p","t","b","o","t">>, <<"p","y","t","h","o","n","-","r","e","q","u","e","s","t","s">>, <<"c","u","r","l">>, <<"w","g","e","t">>>>

BotDetection ==
    /\ pc = "tab6"
    /\ df' = SetColumn(df, "is_bot",
                 [i \in 1..Len(df.rows) |->
                     str_contains(IF isna(df.rows[i].user_agent) THEN NaN
                                  ELSE lower(df.rows[i].user_agent),
                                  bot_keywords, TRUE, Some(FALSE)).val])
    /\ df0' = df'
    /\ pc' = "brute"
    /\ UNCHANGED <<ui_vars, lines, idx, parsed_data, origin, high_error_ips, brute_force_suspects,
                   sql_injection_df, xss_df, raised, php_lines, php_idx, parsed, php_df>>

----------------------------------------------------------------------------
(* The detectors, lines 171-186 *)

\* count > 5 at line 174
BruteForceLimit == 5

\* line 172: the mask of detect_brute_force
brute_force_mask(d) ==
    [i \in 1..Len(d.rows) |->
        logical_and(str_contains(d.rows[i].path, <<<<"l","o","g","i","n">>>>, FALSE, None),
                    isin_mask(d.rows[i].status, {401, 403}))]

\* line 173: groupby(['ip', 'path']).size().reset_index(name='count'); the
\* groups are kept as a set (their order, by key, is not modelled)
group_sizes(d) ==
    {[ip |-> k[1], path |-> k[2],
      count |-> Cardinality({i \in 1..Len(d.rows) : d.rows[i].ip = k[1] /\ d.rows[i].path = k[2]})] :
        k \in {<<d.rows[i].ip, d.rows[i].path>> : i \in 1..Len(d.rows)}
              \ {kk \in {<<d.rows[i].ip, d.rows[i].path>> : i \in 1..Len(d.rows)} :
                    isna(kk[1]) \/ isna(kk[2])}}

\* variant of detect_brute_force: count >= 5
detect_brute_force_geq(d) ==
    {g \in group_sizes(Mask(d, brute_force_mask(d))) : g.count >= BruteForceLimit}

\* lines 171-174
detect_brute_force(d) ==
    {g \in group_sizes(Mask(d, brute_force_mask(d))) : g.count > BruteForceLimit}

sql_keywords == <<<<"S","E","L","E","C","T">>, <<"U","N","I","O","N">>, <<"D","R","O","P">>, <<"I","N","S","E","R","T">>, <<"U","P","D","A","T","E">>, <<"D","E","L","E","T","E">>, <<"W","H","E","R","E">>, <<"O","R">>, <<"A","N","D">>>>
xss_patterns == <<<<"<","s","c","r","i","p","t",">">>, <<"j","a","v","a","s","c","r","i","p","t",":">>, <<"o","n","e","r","r","o","r","=">>, <<"o","n","l","o","a","d","=">>>>

\* variant of pattern_flags: only the path is searched
pattern_flags_path(d, pats) ==
    [i \in 1..Len(d.rows) |-> str_contains(d.rows[i].path, pats, FALSE, Some(FALSE))]

\* lines 178-179 and 184-185: the flag column of the two pattern detectors
pattern_flags(d, pats) ==
    [i \in 1..Len(d.rows) |->
        logical_or(str_contains(d.rows[i].path, pats, FALSE, Some(FALSE)),
                   str_contains(d.rows[i].referrer, pats, FALSE, Some(FALSE)))]

\* lines 176-180: the frame with its new column, and the rows returned
sql_flagged(d) ==
    SetColumn(d, "potential_sql_injection",
              [i \in 1..Len(d.rows) |-> pattern_flags(d, sql_keywords)[i].val])
detect_sql_injection(d) == Mask(sql_flagged(d), pattern_flags(d, sql_keywords))

\* lines 182-186
xss_flagged(d) ==
    SetColumn(d, "potential_xss",
              [i \in 1..Len(d.rows) |-> pattern_flags(d, xss_patterns)[i].val])
detect_xss(d) == Mask(xss_flagged(d), pattern_flags(d, xss_patterns))

\* An exception in a detector is caught nowhere: it ends the script run.
Raise(fn) ==
    /\ raised' = fn
    /\ pc' = "error"

\* line 510
DetectBruteForce ==
    /\ pc = "brute"
    /\ IF HasNA(brute_force_mask(df))
       THEN /\ Raise("detect_brute_force")
            /\ UNCHANGED brute_force_suspects
       ELSE /\ brute_force_suspects' = detect_brute_force(df)
            /\ pc' = "sql"
            /\ UNCHANGED raised
    /\ UNCHANGED <<ui_vars, lines, idx, parsed_data, origin, df, df0, high_error_ips,
                   sql_injection_df, xss_df, php_lines, php_idx, parsed, php_df>>

\* line 517: the call assigns a column of the frame it is given
DetectSqlInjection ==
    /\ pc = "sql"
    /\ IF HasNA(pattern_flags(df, sql_keywords))
       THEN /\ Raise("detect_sql_injection")
            /\ UNCHANGED <<df, sql_injection_df>>
       ELSE /\ df' = sql_flagged(df)
            /\ sql_injection_df' = detect_sql_injection(df)
            /\ pc' = "xss"
            /\ UNCHANGED raised
    /\ UNCHANGED <<ui_vars, lines, idx, parsed_data, origin, df0, high_error_ips, brute_force_suspects,
                   xss_df, php_lines, php_idx, parsed, php_df>>

\* line 524
DetectXss ==
    /\ pc = "xss"
    /\ IF HasNA(pattern_flags(df, xss_patterns))
       THEN /\ Raise("detect_xss")
            /\ UNCHANGED <<df, xss_df>>
       ELSE /\ df' = xss_flagged(df)
            /\ xss_df' = detect_xss(df)
            /\ pc' = "done"
            /\ UNCHANGED raised
    /\ UNCHANGED <<ui_vars, lines, idx, parsed_data, origin, df0, high_error_ips, brute_force_suspects,
                   sql_injection_df, php_lines, php_idx, parsed, php_df>>

----------------------------------------------------------------------------
(* parse_php_error_log, lines 79-102 *)

Dot == Alphabet \ {"\n"}

\* r'\[(.*?)\]\s+PHP\s+([A-Za-z ]+):\s*(.*)'  (groups: items 2, 9 and 12)
pattern == <<Lit("["), LazyStar(Dot), Lit("]"), Plus(Space), Lit("P"), Lit("H"), Lit("P"),
             Plus(Space), Plus(Upper \cup Lower \cup {" "}), Lit(":"), Star(Space), Star(Dot)>>

\* variant of capitalize: str.title(), every word capitalized
capitalize_title(s) ==
    [i \in 1..Len(s) |->
        IF i = 1 \/ s[i - 1] \notin Upper \cup Lower THEN UpperChar(s[i]) ELSE LowerChar(s[i])]

\* str.capitalize(): the first character upper-cased, the others lower-cased
capitalize(s) == [i \in 1..Len(s) |-> IF i = 1 THEN UpperChar(s[i]) ELSE LowerChar(s[i])]

\* lines 88-96
error_type_label(raw) ==
    LET error_type == lower(strip(raw))
    IN  IF error_type = <<"f","a","t","a","l"," ","e","r","r","o","r">> THEN <<"F","a","t","a","l"," ","E","r","r","o","r"," ","(","C","r","i","t","i","c","a","l",")">>
        ELSE IF error_type = <<"w","a","r","n","i","n","g">> THEN <<"W","a","r","n","i","n","g">>
        ELSE IF error_type = <<"n","o","t","i","c","e">> THEN <<"I","n","f","o">>
        ELSE capitalize(error_type)

\* lines 85-101: the record of a line, or Skip when the pattern does not match
parse_php_line(line) ==
    LET m == re_match(pattern, line)
    IN  IF m = NoMatch THEN Skip
        ELSE Emit([time |-> Group(line, m, 2),
                   type |-> error_type_label(Group(line, m, 9)),
                   message |-> Group(line, m, 12)])

PhpLineFields == <<
    \* what precedes the timestamp
    << <<>>, <<" ">>, <<"x">> >>,
    \* [timestamp]
    << <<"[","1","2","-","J","a","n","-","2","0","2","4"," ","0","0",":","0","0",":","0","0"," ","U","T","C","]">>, <<"[","a","]"," ","x"," ","[","b","]">>, <<"[","]">>, <<"1","2","-","J","a","n","-","2","0","2","4">> >>,
    \* the marker word
    << <<" ","P","H","P"," ">>, <<" "," ","P","H","P","\t">>, <<" ","p","h","p"," ">>, <<"P","H","P"," ">>, <<" ","P","H","P">> >>,
    \* the severity words
    << <<"F","a","t","a","l"," ","e","r","r","o","r">>, <<"W","A","R","N","I","N","G">>, <<"N","o","t","i","c","e">>, <<"P","a","r","s","e"," ","e","r","r","o","r">>, <<"D","e","p","r","e","c","a","t","e","d">>, <<"f","a","t","a","l"," ","E","R","R","O","R"," ">>,
       <<"C","o","r","e"," ","w","a","r","n","i","n","g">>, <<"E","_","1">>, <<>> >>,
    \* the colon
    << <<":">>, <<>> >>,
    \* the message
    << <<" "," ","b","o","o","m">>, <<" ","b","o","o","m"," "," ">>, <<>>, <<" ","U","n","c","a","u","g","h","t",":"," ","x">> >>,
    \* end of line
    << <<"\n">>, <<>> >>
>>

PhpFiles == FilesOf(PhpLineFields)

InitPhp ==
    /\ pc = "php_parse"
    /\ php_lines \in PhpFiles
    /\ php_idx = 1
    /\ parsed = <<>>
    /\ php_df = EmptyFrame
    /\ lines = <<>>
    /\ idx = 1
    /\ parsed_data = <<>>
    /\ origin = <<>>
    /\ df = EmptyFrame
    /\ df0 = EmptyFrame
    /\ high_error_ips = <<>>
    /\ brute_force_suspects = {}
    /\ sql_injection_df = EmptyFrame
    /\ xss_df = EmptyFrame
    /\ raised = ""
    /\ NoSession

\* lines 84-101: the line matches and its record is appended
PhpAppend ==
    /\ pc = "php_parse"
    /\ php_idx <= Len(php_lines)
    /\ parse_php_line(php_lines[php_idx]).emit
    /\ parsed' = Append(parsed, parse_php_line(php_lines[php_idx]).rec)
    /\ php_idx' = php_idx + 1
    /\ UNCHANGED <<ui_vars, pc, lines, idx, parsed_data, origin, df, df0, high_error_ips,
                   brute_force_suspects, sql_injection_df, xss_df, raised, php_lines, php_df>>

\* lines 85-86: the line does not match
PhpSkip ==
    /\ pc = "php_parse"
    /\ php_idx <= Len(php_lines)
    /\ ~parse_php_line(php_lines[php_idx]).emit
    /\ php_idx' = php_idx + 1
    /\ UNCHANGED <<ui_vars, pc, lines, idx, parsed_data, origin, df, df0, high_error_ips,
                   brute_force_suspects, sql_injection_df, xss_df, raised, php_lines, parsed,
                   php_df>>

\* line 102
PhpReturn ==
    /\ pc = "php_parse"
    /\ php_idx > Len(php_lines)
    /\ php_df' = IF Len(parsed) = 0 THEN EmptyFrame
                 ELSE DataFrame(<<"time", "type", "message">>, parsed)
    /\ pc' = "php_done"
    /\ UNCHANGED <<ui_vars, lines, idx, parsed_data, origin, df, df0, high_error_ips,
                   brute_force_suspects, sql_injection_df, xss_df, raised, php_lines, php_idx,
                   parsed>>

----------------------------------------------------------------------------
(* Frames for the detectors and the Security tab taken as functions: up to  *)
(* MaxRuns runs of equal rows, long enough to cross the thresholds.  (The   *)
(* parser itself never leaves path or referrer missing.)                    *)

\* longest frame, in runs of equal rows
MaxRuns == 2

RowKinds == <<
    [ip |-> <<"9",".","9",".","9",".","9">>, path |-> <<"/","w","p","-","l","o","g","i","n",".","p","h","p">>, status |-> Some(401), referrer |-> <<"-">>],
    [ip |-> <<"9",".","9",".","9",".","9">>, path |-> <<"/","w","p","-","l","o","g","i","n",".","p","h","p">>, status |-> Some(200), referrer |-> <<"-">>],
    [ip |-> <<"8",".","8",".","8",".","8">>, path |-> <<"/","L","O","G","I","N">>, status |-> None, referrer |-> NaN],
    [ip |-> <<"8",".","8",".","8",".","8">>, path |-> NaN, status |-> Some(403), referrer |-> <<"h","t","t","p",":","/","/","x","/","?","q","=","O","r">>],
    [ip |-> <<"8",".","8",".","8",".","8">>, path |-> <<"/","L","O","G","I","N">>, status |-> Some(403), referrer |-> <<"-">>],
    [ip |-> <<"9",".","9",".","9",".","9">>, path |-> <<"/","a","?","x","=","<","S","c","r","i","p","t",">">>, status |-> Some(404), referrer |-> NaN],
    [ip |-> <<"-">>, path |-> <<"/","B","r","a","n","d">>, status |-> Some(200), referrer |-> <<"J","a","v","a","S","c","r","i","p","t",":","x">>]
>>

RunLengths == {1, BruteForceLimit, BruteForceLimit + 1}

FullRow(k) ==
    [ip |-> k.ip, time |-> None, method |-> <<"G","E","T">>, path |-> k.path, protocol |-> <<"H","T","T","P","/","1",".","1">>,
     status |-> k.status, size |-> None, referrer |-> k.referrer, user_agent |-> <<"c","u","r","l">>,
     req_time |-> None, proxy_chain |-> k.ip, server |-> server_dir,
     extension |-> get_extension(k.path)]

RECURSIVE Expand(_)
Expand(runs) ==
    IF Len(runs) = 0 THEN <<>>
    ELSE [i \in 1..Head(runs)[2] |-> FullRow(RowKinds[Head(runs)[1]])] \o Expand(Tail(runs))

RunSeqs == UNION {[1..n -> (DOMAIN RowKinds) \X RunLengths] : n \in 1..MaxRuns}

DetectFrames == {DataFrame(RecordColumns \o <<"server", "extension">>, Expand(rs)) : rs \in RunSeqs}

InitDetect ==
    /\ pc = "tab4"
    /\ df \in DetectFrames
    /\ df0 = EmptyFrame
    /\ lines = <<>>
    /\ idx = 1
    /\ parsed_data = <<>>
    /\ origin = <<>>
    /\ high_error_ips = <<>>
    /\ brute_force_suspects = {}
    /\ sql_injection_df = EmptyFrame
    /\ xss_df = EmptyFrame
    /\ raised = ""
    /\ php_lines = <<>>
    /\ php_idx = 1
    /\ parsed = <<>>
    /\ php_df = EmptyFrame
    /\ NoSession

----------------------------------------------------------------------------
(* The page script: each interaction runs it from the top; the sidebar reads  *)
(* the widgets and handles the pressed button, then the gate decides whether  *)
(* the analysis tabs are rendered.                                            *)

InitSession ==
    /\ pc = "wait"
    /\ session_state = EmptySession
    /\ site_logs \in {None, Some({}), Some({logs_dir_of(<<"a">>, <<"d","e","v">>)})}
    /\ button = ""
    /\ site_name = <<>>
    /\ env = <<>>
    /\ site_uuid = None
    /\ app_servers = 0
    /\ fetched = 0
    /\ tabs = FALSE
    /\ lines = <<>>
    /\ idx = 1
    /\ parsed_data = <<>>
    /\ origin = <<>>
    /\ df = EmptyFrame
    /\ df0 = EmptyFrame
    /\ high_error_ips = <<>>
    /\ brute_force_suspects = {}
    /\ sql_injection_df = EmptyFrame
    /\ xss_df = EmptyFrame
    /\ raised = ""
    /\ php_lines = <<>>
    /\ php_idx = 1
    /\ parsed = <<>>
    /\ php_df = EmptyFrame

\* the script has run to its end or was left by an exception: its variables are gone
ScriptEnds ==
    /\ pc' = "wait"
    /\ button' = ""
    /\ site_name' = <<>>
    /\ env' = <<>>
    /\ site_uuid' = None
    /\ app_servers' = 0
    /\ fetched' = 0

\* lines 212-240: an interaction starts the script; the sidebar fills the caches
\* of site and environment names and reads the two widgets and the buttons
Sidebar ==
    /\ pc = "wait"
    /\ \E fetched_sites \in get_site_list :
         LET ss1 == IF has(session_state, K_site_list) THEN session_state
                    ELSE set(session_state, K_site_list, fetched_sites)
             site_list == ss1[K_site_list]
         IN  \E name \in (IF site_list # <<>> THEN Range(site_list) ELSE SiteInputs) :
               \E fetched_envs \in get_env_list(name) :
                 LET ss2 == IF name = <<>> \/ has(ss1, env_cache_key(name)) THEN ss1
                            ELSE set(ss1, env_cache_key(name), fetched_envs)
                     env_list == IF name # <<>> THEN ss2[env_cache_key(name)] ELSE <<>>
                 IN  \E e \in (IF env_list # <<>> THEN Range(env_list) ELSE EnvInputs) :
                       /\ session_state' = ss2
                       /\ site_name' = name
                       /\ env' = e
    /\ button' \in Buttons
    /\ site_uuid' = None
    /\ tabs' = FALSE
    /\ pc' = "buttons"
    /\ UNCHANGED <<data_vars, site_logs, app_servers, fetched>>

\* lines 240-243, 254-255: Collect Logs for a site without UUID
CollectLogsInvalid ==
    /\ pc = "buttons"
    /\ button = "Collect Logs"
    /\ None \in get_site_uuid(site_name)
    /\ site_uuid' = None
    /\ pc' = "gate"
    /\ UNCHANGED <<data_vars, session_state, site_logs, button, site_name, env, app_servers, fetched,
                   tabs>>

\* variant of CollectLogsStart: the site and environment are stored before
\* collect_logs runs
CollectLogsStartStored ==
    /\ pc = "buttons"
    /\ button = "Collect Logs"
    /\ \E uuid \in get_site_uuid(site_name) \ {None} : site_uuid' = uuid
    /\ session_state' = set(set(session_state, K_site_name, site_name), K_env, env)
    /\ site_logs' = Some((IF site_logs.present THEN site_logs.val ELSE {})
                            \cup {logs_dir_of(site_name, env)})
    /\ app_servers' \in 0..MaxServers
    /\ pc' = "collect_logs"
    /\ UNCHANGED <<data_vars, button, site_name, env, fetched, tabs>>

\* lines 240-248, 142-149: the UUID is resolved and collect_logs replaces the
\* directory of the site and environment and looks up the app servers
CollectLogsStart ==
    /\ pc = "buttons"
    /\ button = "Collect Logs"
    /\ \E uuid \in get_site_uuid(site_name) \ {None} : site_uuid' = uuid
    /\ site_logs' = Some((IF site_logs.present THEN site_logs.val ELSE {})
                            \cup {logs_dir_of(site_name, env)})
    /\ app_servers' \in 0..MaxServers
    /\ pc' = "collect_logs"
    /\ UNCHANGED <<data_vars, session_state, button, site_name, env, fetched, tabs>>

\* lines 151-169: the three logs of one server are fetched
FetchLogs ==
    /\ pc = "collect_logs"
    /\ fetched < app_servers
    /\ fetched' = fetched + 1
    /\ UNCHANGED <<data_vars, pc, session_state, site_logs, button, site_name, env, site_uuid,
                   app_servers, tabs>>

\* lines 248-253: collect_logs is exhausted; the site and environment are stored
CollectLogsDone ==
    /\ pc = "collect_logs"
    /\ fetched = app_servers
    /\ session_state' = set(set(session_state, K_site_name, site_name), K_env, env)
    /\ pc' = "gate"
    /\ UNCHANGED <<data_vars, site_logs, button, site_name, env, site_uuid, app_servers, fetched, tabs>>

\* what ~/site-logs may look like when rmtree, makedirs or dig raises (lines 143-149)
FailedStart(fs, dir) ==
    {fs, Some((IF fs.present THEN fs.val ELSE {}) \cup {dir})}
        \cup (IF fs.present THEN {Some(fs.val \ {dir})} ELSE {})

\* lines 143-168: an exception leaves collect_logs (or the run is stopped by
\* the next interaction), and with it the script
CollectLogsRaise ==
    /\ \/ /\ pc = "buttons"
          /\ button = "Collect Logs"
          /\ get_site_uuid(site_name) # {None}
          /\ site_logs' \in FailedStart(site_logs, logs_dir_of(site_name, env))
       \/ /\ pc = "collect_logs"
          /\ UNCHANGED site_logs
    /\ ScriptEnds
    /\ UNCHANGED <<data_vars, session_state, tabs>>

\* lines 257-259, 269-270: Clear Logs without ~/site-logs
ClearLogsNone ==
    /\ pc = "buttons"
    /\ button = "Clear Logs"
    /\ ~site_logs.present
    /\ pc' = "gate"
    /\ UNCHANGED <<data_vars, ui_vars>>

\* lines 257-266: ~/site-logs is removed and the site and environment forgotten
ClearLogsDone ==
    /\ pc = "buttons"
    /\ button = "Clear Logs"
    /\ site_logs.present
    /\ site_logs' = None
    /\ session_state' = del(del(session_state, K_site_name), K_env)
    /\ pc' = "gate"
    /\ UNCHANGED <<data_vars, button, site_name, env, site_uuid, app_servers, fetched, tabs>>

\* lines 260-261, 267-268: rmtree raises, having removed some of the directories
ClearLogsFailed ==
    /\ pc = "buttons"
    /\ button = "Clear Logs"
    /\ site_logs.present
    /\ \E rest \in SUBSET site_logs.val : site_logs' = Some(rest)
    /\ pc' = "gate"
    /\ UNCHANGED <<data_vars, session_state, button, site_name, env, site_uuid, app_servers, fetched,
                   tabs>>

\* lines 272-294: Generate Report writes into the directory of the stored site
\* and environment, if there is one; an exception ends the script
GenerateReport ==
    /\ pc = "buttons"
    /\ button = "Generate Report"
    /\ IF /\ has(session_state, K_site_name)
          /\ has(session_state, K_env)
          /\ exists(site_logs, logs_dir_of(session_state[K_site_name], session_state[K_env]))
       THEN \/ pc' = "gate" /\ UNCHANGED <<button, site_name, env, site_uuid, app_servers, fetched>>
            \/ ScriptEnds
       ELSE pc' = "gate" /\ UNCHANGED <<button, site_name, env, site_uuid, app_servers, fetched>>
    /\ UNCHANGED <<data_vars, session_state, site_logs, tabs>>

\* no button was pressed (a widget changed)
NoButton ==
    /\ pc = "buttons"
    /\ button = ""
    /\ pc' = "gate"
    /\ UNCHANGED <<data_vars, ui_vars>>

\* lines 296-300: logs_dir
gate_open(ss, fs) ==
    /\ has(ss, K_site_name)
    /\ has(ss, K_env)
    /\ exists(fs, logs_dir_of(ss[K_site_name], ss[K_env]))

\* lines 296-305: the tabs are rendered when logs_dir is set and exists
Gate ==
    /\ pc = "gate"
    /\ tabs' = gate_open(session_state, site_logs)
    /\ ScriptEnds
    /\ UNCHANGED <<data_vars, session_state, site_logs>>

----------------------------------------------------------------------------
(* Specifications *)

\* one run of the page for one server directory's access log
Next ==
    \/ AppendRecord
    \/ SkipLine
    \/ ReturnFrame
    \/ CollectFrames
    \/ HighErrorIps
    \/ BotDetection
    \/ DetectBruteForce
    \/ DetectSqlInjection
    \/ DetectXss

Spec == Init /\ [][Next]_vars

\* the Security tab and the detectors on a given frame
NextDetect ==
    \/ HighErrorIps
    \/ BotDetection
    \/ DetectBruteForce
    \/ DetectSqlInjection
    \/ DetectXss

SpecDetect == InitDetect /\ [][NextDetect]_vars

\* parse_php_error_log on one file
NextPhp ==
    \/ PhpAppend
    \/ PhpSkip
    \/ PhpReturn

SpecPhp == InitPhp /\ [][NextPhp]_vars

\* the interactions with one page
NextSession ==
    \/ Sidebar
    \/ CollectLogsInvalid
    \/ CollectLogsStart
    \/ FetchLogs
    \/ CollectLogsDone
    \/ CollectLogsRaise
    \/ ClearLogsNone
    \/ ClearLogsDone
    \/ ClearLogsFailed
    \/ GenerateReport
    \/ NoButton
    \/ Gate

SpecSession == InitSession /\ [][NextSession]_vars

----------------------------------------------------------------------------
(* Properties of parse_nginx_log (checked under Spec) *)

\* A line has 4 double-quoted substrings when it has 8 double quotes, and a
\* non-empty bracketed substring when some "[" is followed by a character
\* other than "]" and, later, by a "]".
QuoteCount(line) == Cardinality({i \in DOMAIN line : line[i] = "\""})
HasBracketed(line) ==
    \E i \in 1..(Len(line) - 2) :
        /\ line[i] = "["
        /\ line[i + 1] # "]"
        /\ \E j \in (i + 2)..Len(line) : line[j] = "]"
MeetsRequirement(line) == QuoteCount(line) >= 8 /\ HasBracketed(line)

\* C1: every line read so far has yielded exactly one record if it has at least
\* 4 quoted substrings and at least 1 non-empty bracketed substring, and no
\* record otherwise (whatever its request line, timestamp, status, size and
\* request time look like).
C1_OneRecordIffRequiredFields ==
    \A k \in 1..(idx - 1) :
        Cardinality({i \in DOMAIN origin : origin[i] = k})
            = IF MeetsRequirement(lines[k]) THEN 1 ELSE 0

\* a line with the required fields and an unparsable timestamp has yielded a record
C1_Witness ==
    \E i \in DOMAIN parsed_data :
        /\ MeetsRequirement(lines[origin[i]])
        /\ ~parsed_data[i].time.present

\* C2: the loop visits every line; the records appended so far are those of
\* the parsable lines visited so far, in the order of their lines, and the
\* frame is built only after the last line (the records are compared with the
\* lines up to the return of the parser, the last to write them).
C2_OrderPreservingSubsequence ==
    /\ idx \in 1..(Len(lines) + 1)
    /\ Len(parsed_data) = Len(origin)
    /\ Len(parsed_data) <= Len(lines)
    /\ \A i, j \in DOMAIN origin : i < j => origin[i] < origin[j]
    /\ pc \in {"parse", "collect"} =>
       LET result == [k \in 1..(idx - 1) |-> parse_line(lines[k])]
       IN  /\ {origin[i] : i \in DOMAIN origin} = {k \in 1..(idx - 1) : result[k].emit}
           /\ \A i \in DOMAIN origin : parsed_data[i] = result[origin[i]].rec
    /\ (pc # "parse" => idx = Len(lines) + 1)

\* the first of two lines was passed over and the second yielded the only record
C2_Witness ==
    /\ pc = "collect"
    /\ Len(lines) = 2
    /\ origin = <<2>>

\* four dot-separated groups of 1-3 digits
IsIPv4(t) ==
    \E a \in 2..4 : \E b \in (a + 2)..(a + 4) : \E c \in (b + 2)..(b + 4) :
        /\ Len(t) - c \in 1..3
        /\ \A i \in DOMAIN t : IF i \in {a, b, c} THEN t[i] = "." ELSE t[i] \in Digit

\* hexadecimal digits and colons
IsIPv6(t) ==
    /\ Len(t) >= 1
    /\ \A i \in DOMAIN t :
          t[i] \in Digit \cup {"a", "b", "c", "d", "e", "f", "A", "B", "C", "D", "E", "F", ":"}

\* the trimmed first comma-separated token of the proxy chain
FirstToken(chain) == strip(FirstField(chain, ","))

\* C3: the ip of every record is the trimmed first token of its proxy chain
\* when that token is an IPv4 or IPv6 literal, and "-" otherwise.
C3_IpIsValidFirstTokenOrDash ==
    \A i \in DOMAIN parsed_data :
        LET tok == FirstToken(parsed_data[i].proxy_chain)
        IN  parsed_data[i].ip = IF IsIPv4(tok) \/ IsIPv6(tok) THEN tok ELSE <<"-">>

\* one record took its ip from the chain, another got "-" for "not-an-ip"
C3_Witness ==
    \E i, j \in DOMAIN parsed_data :
        /\ parsed_data[i].proxy_chain = <<"9",".","9",".","9",".","9",","," ","1",".","1",".","1",".","1">>
        /\ parsed_data[i].ip = <<"9",".","9",".","9",".","9">>
        /\ parsed_data[j].proxy_chain = <<"n","o","t","-","a","n","-","i","p">>
        /\ parsed_data[j].ip = <<"-">>

StatusValues ==
    {parsed_data[i].status : i \in DOMAIN parsed_data} \cup {df.rows[i].status : i \in DOMAIN df.rows}

\* C4: the status of every record is absent or an integer in [100, 599].
C4_StatusInHttpRange ==
    \A s \in StatusValues : s.present => s.val \in 100..599

\* C4, amended: the status of every record is absent or an integer in [0, 999].
C4_StatusIsThreeDigits ==
    \A s \in StatusValues : s.present => s.val \in 0..999

\* the line with " 999 12 " has yielded a record of status 999
C4_Witness ==
    \E i \in DOMAIN parsed_data :
        /\ parsed_data[i].status.present
        /\ parsed_data[i].status.val = 999

\* A status and a size occur at the double quote at position q of the line when
\* the quote is followed by at least ws whitespace characters, exactly three
\* digits (from a), whitespace, one or more digits (from b to c - 1) and a
\* whitespace character (at c).
AllIn(line, lo, hi, cls) == \A i \in lo..hi : line[i] \in cls
StatusSizeAt(line, q, ws) ==
    IF line[q] # "\"" THEN {}
    ELSE UNION {UNION {{<<a, b, c>> : c \in {c \in (b + 1)..Len(line) :
                                                /\ AllIn(line, b, c - 1, Digit)
                                                /\ line[c] \in Space}} :
                       b \in {b \in (a + 4)..Len(line) : AllIn(line, a + 3, b - 1, Space)}} :
                a \in {a \in (q + 1 + ws)..(Len(line) - 2) :
                           /\ AllIn(line, q + 1, a - 1, Space)
                           /\ AllIn(line, a, a + 2, Digit)}}

\* the first occurrence in the line, as <<status, size>>, or <<>> when there is none
FirstStatusSize(line, ws) ==
    LET at == {q \in DOMAIN line : StatusSizeAt(line, q, ws) # {}}
        q  == Min(at)
        o  == CHOOSE t \in StatusSizeAt(line, q, ws) : TRUE
    IN  IF at = {} THEN <<>>
        ELSE <<int(SubSeq(line, o[1], o[1] + 2)), int(SubSeq(line, o[2], o[3] - 1))>>

StatusSizeAre(ws) ==
    \A i \in DOMAIN parsed_data :
        LET r == parsed_data[i]
            e == FirstStatusSize(lines[origin[i]], ws)
        IN  /\ r.status.present <=> e # <<>>
            /\ r.size.present <=> e # <<>>
            /\ e # <<>> => r.status.val = e[1] /\ r.size.val = e[2]

\* C12: status and size of every record are both present exactly when its line
\* has a double quote followed by whitespace, exactly three digits, whitespace,
\* one or more digits and whitespace, and are then the integers of the first
\* such occurrence; otherwise both are absent.
C12_StatusSizeAfterQuoteAndWhitespace == StatusSizeAre(1)

\* C12, amended: ... a double quote followed by optional whitespace, exactly
\* three digits, whitespace, one or more digits and whitespace ...
C12_StatusSizeAfterQuote == StatusSizeAre(0)

\* a line whose status follows the closing quote of the request directly has
\* yielded a record with status 401 and size 0
C12_Witness ==
    \E i \in DOMAIN parsed_data :
        /\ FirstStatusSize(lines[origin[i]], 1) = <<>>
        /\ parsed_data[i].status = Some(401)
        /\ parsed_data[i].size = Some(0)

----------------------------------------------------------------------------
(* Properties of the detectors and the Security tab (checked under SpecDetect) *)

EqIgnoreCase(a, b) == a = b \/ \E n \in DOMAIN UpperSeq : {a, b} = {UpperSeq[n], LowerSeq[n]}

\* v is present and holds w as a substring, letter case ignored
ContainsIgnoreCase(v, w) ==
    /\ ~isna(v)
    /\ \E i \in 1..(Len(v) - Len(w) + 1) : \A j \in 1..Len(w) : EqIgnoreCase(v[i + j - 1], w[j])

AfterBruteForce == pc \in {"sql", "xss", "done"} /\ ~empty(df)
AfterSqlInjection == pc \in {"xss", "done"} /\ ~empty(df)
AfterXss == pc = "done" /\ ~empty(df)

\* the records of the pair with a login path and status 401 or 403
LoginFailures(ip, path) ==
    Cardinality({i \in DOMAIN df.rows :
                    /\ df.rows[i].ip = ip
                    /\ df.rows[i].path = path
                    /\ ContainsIgnoreCase(path, <<"l","o","g","i","n">>)
                    /\ df.rows[i].status.present
                    /\ df.rows[i].status.val \in {401, 403}})

\* C5: detect_brute_force returns a row for a pair (ip, path) exactly when more
\* than 5 records of that pair have a path containing "login" (in any letter
\* case) and status 401 or 403, and the row's count is that number.
C5_BruteForceRows ==
    AfterBruteForce =>
        /\ \A pair \in {<<df.rows[i].ip, df.rows[i].path>> : i \in DOMAIN df.rows} :
              (\E g \in brute_force_suspects : g.ip = pair[1] /\ g.path = pair[2])
                  <=> LoginFailures(pair[1], pair[2]) > 5
        /\ \A g \in brute_force_suspects :
              /\ g.count = LoginFailures(g.ip, g.path)
              /\ g.count > 5
              /\ \A h \in brute_force_suspects : (h.ip = g.ip /\ h.path = g.path) => h = g

\* a pair with 6 failed logins is reported while a pair with 5 is not
C5_Witness ==
    /\ AfterBruteForce
    /\ \E g \in brute_force_suspects : g.count = 6
    /\ \E i \in DOMAIN df.rows : LoginFailures(df.rows[i].ip, df.rows[i].path) = 5

AfterSecurityTab == pc \in {"tab6", "brute", "sql", "xss", "done"} /\ ~empty(df)

AllRequests(ip) == Cardinality({i \in DOMAIN df.rows : df.rows[i].ip = ip})
ErrorRequests(ip) ==
    Cardinality({i \in DOMAIN df.rows :
                    /\ df.rows[i].ip = ip
                    /\ df.rows[i].status.present
                    /\ df.rows[i].status.val >= 400})
HighErrorIpSet ==
    {ip \in {df.rows[i].ip : i \in DOMAIN df.rows} :
        2 * ErrorRequests(ip) > AllRequests(ip) /\ AllRequests(ip) > 10}

\* C6: the high-error-IP table counts, per ip, all its records (total_requests,
\* records without a status included) and those of status >= 400
\* (error_requests); it lists exactly the ips with error rate > 0.5 and more
\* than 10 records (when at most 10 qualify), by descending rate, at most 10.
C6_HighErrorIpsCountAllRecords ==
    AfterSecurityTab =>
        /\ Len(high_error_ips) <= 10
        /\ \A i \in DOMAIN high_error_ips :
              /\ high_error_ips[i].ip \in HighErrorIpSet
              /\ high_error_ips[i].total_requests = AllRequests(high_error_ips[i].ip)
              /\ high_error_ips[i].error_requests = ErrorRequests(high_error_ips[i].ip)
        /\ Cardinality(HighErrorIpSet) <= 10
              => {high_error_ips[i].ip : i \in DOMAIN high_error_ips} = HighErrorIpSet
        /\ \A i, j \in DOMAIN high_error_ips :
              i < j => RateGeq(high_error_ips[i], high_error_ips[j])

SqlWords == {<<"S","E","L","E","C","T">>, <<"U","N","I","O","N">>, <<"D","R","O","P">>, <<"I","N","S","E","R","T">>, <<"U","P","D","A","T","E">>, <<"D","E","L","E","T","E">>, <<"W","H","E","R","E">>, <<"O","R">>, <<"A","N","D">>}
SqlHit(v) == \E w \in SqlWords : ContainsIgnoreCase(v, w)
XssHit(v) == \E w \in {<<"<","s","c","r","i","p","t",">">>, <<"j","a","v","a","s","c","r","i","p","t",":">>, <<"o","n","e","r","r","o","r","=">>, <<"o","n","l","o","a","d","=">>} : ContainsIgnoreCase(v, w)

\* the fields a row had before the detectors ran
Original(r) == [c \in DOMAIN df0.rows[1] |-> r[c]]

\* C7: detect_sql_injection returns exactly the records whose path or referrer
\* holds one of the keywords as a substring, letter case ignored; a record with
\* both fields missing or free of keywords is not returned.
C7_SqlInjectionRows ==
    AfterSqlInjection =>
        [i \in DOMAIN sql_injection_df.rows |-> Original(sql_injection_df.rows[i])]
            = SelectRows(df0.rows,
                         [i \in DOMAIN df0.rows |->
                             SqlHit(df0.rows[i].path) \/ SqlHit(df0.rows[i].referrer)])

\* a record is returned for its referrer alone, and a record without referrer is not returned
C7_Witness ==
    /\ AfterSqlInjection
    /\ \E i \in DOMAIN sql_injection_df.rows :
          /\ isna(sql_injection_df.rows[i].path)
          /\ SqlHit(sql_injection_df.rows[i].referrer)
    /\ \E i \in DOMAIN df0.rows :
          /\ isna(df0.rows[i].referrer)
          /\ ~SqlHit(df0.rows[i].path)

\* C8: after the detectors have run, the frame they were given has the same
\* records, with the same fields and values, as before.
C8_DetectorsLeaveFrameUnchanged ==
    AfterBruteForce => df = df0

\* C9: no detector raises on records with a missing status, path or referrer,
\* and a missing field never makes a record match: every brute-force group has
\* a path and counts only records with a status, and every row returned by the
\* pattern detectors has a present field holding a pattern.
C9_NoRaiseMissingIsNoMatch ==
    /\ raised = ""
    /\ pc # "error"
    /\ AfterBruteForce =>
          \A g \in brute_force_suspects :
              /\ ~isna(g.path)
              /\ g.count <= Cardinality({i \in DOMAIN df.rows :
                                            /\ df.rows[i].ip = g.ip
                                            /\ df.rows[i].path = g.path
                                            /\ df.rows[i].status.present})
    /\ AfterSqlInjection =>
          \A i \in DOMAIN sql_injection_df.rows :
              SqlHit(sql_injection_df.rows[i].path) \/ SqlHit(sql_injection_df.rows[i].referrer)
    /\ AfterXss =>
          \A i \in DOMAIN xss_df.rows :
              XssHit(xss_df.rows[i].path) \/ XssHit(xss_df.rows[i].referrer)

\* the three detectors have run on records missing a path, a status and a referrer
C9_Witness ==
    /\ AfterXss
    /\ raised = ""
    /\ \E i \in DOMAIN df.rows : isna(df.rows[i].path)
    /\ \E i \in DOMAIN df.rows : ~df.rows[i].status.present
    /\ \E i \in DOMAIN df.rows : isna(df.rows[i].referrer)

----------------------------------------------------------------------------
(* Properties of parse_php_error_log (checked under SpecPhp) *)

PhpMatches(line) == re_match(pattern, line) # NoMatch

\* the severity token of a matching line, trimmed
SeverityToken(line) == strip(Group(line, re_match(pattern, line), 9))

\* the matching lines among the first n, in order
MatchingLines(n) ==
    SelectRows(SubSeq(php_lines, 1, n), [k \in 1..n |-> PhpMatches(php_lines[k])])

SameIgnoringCase(a, b) == Len(a) = Len(b) /\ \A i \in DOMAIN a : EqIgnoreCase(a[i], b[i])

IsLetter(c) == c \in Upper \cup Lower
TitleCased(s) ==
    [i \in DOMAIN s |-> IF i = 1 \/ ~IsLetter(s[i - 1]) THEN UpperChar(s[i]) ELSE LowerChar(s[i])]
Capitalized(s) == [i \in DOMAIN s |-> IF i = 1 THEN UpperChar(s[i]) ELSE LowerChar(s[i])]

ExpectedType(token, Other(_)) ==
    IF SameIgnoringCase(token, <<"f","a","t","a","l"," ","e","r","r","o","r">>) THEN <<"F","a","t","a","l"," ","E","r","r","o","r"," ","(","C","r","i","t","i","c","a","l",")">>
    ELSE IF SameIgnoringCase(token, <<"w","a","r","n","i","n","g">>) THEN <<"W","a","r","n","i","n","g">>
    ELSE IF SameIgnoringCase(token, <<"n","o","t","i","c","e">>) THEN <<"I","n","f","o">>
    ELSE Other(token)

TypesAre(Other(_)) ==
    LET ml == MatchingLines(php_idx - 1)
    IN  /\ Len(parsed) = Len(ml)
        /\ \A i \in DOMAIN parsed : parsed[i].type = ExpectedType(SeverityToken(ml[i]), Other)

\* C10: the lines that match the pattern from their start, and only they, yield
\* a record; its type is "Fatal Error (Critical)", "Warning" or "Info" for the
\* severities "fatal error", "warning" and "notice" (in any letter case) and the
\* title-cased severity otherwise.
C10_TypeTitleCased == TypesAre(TitleCased)

\* C10, amended: ... and otherwise the capitalized severity, its first letter
\* in upper case and all the others in lower case.
C10_TypeCapitalized == TypesAre(Capitalized)

\* a "Parse error" line has yielded a record of type "Parse error"
C10_Witness ==
    \E i \in DOMAIN parsed : parsed[i].type = <<"P","a","r","s","e"," ","e","r","r","o","r">>

\* the text of a matching line after the colon that ends its severity
AfterSeverityColon(line) ==
    LET m == re_match(pattern, line)
    IN  SubSeq(line, m[11], Len(line))

\* C11: the message of the record of every matching line is the text after the
\* severity colon with its leading and trailing whitespace removed.
C11_MessageTrimmed ==
    LET ml == MatchingLines(php_idx - 1)
    IN  /\ Len(parsed) = Len(ml)
        /\ \A i \in DOMAIN parsed : parsed[i].message = strip(AfterSeverityColon(ml[i]))

----------------------------------------------------------------------------
(* Properties of the session state (checked under SpecSession) *)

\* the stored site and environment: each the value of its key, or None
Stored(ss) ==
    <<IF <<"site_name", <<>>>> \in DOMAIN ss THEN Some(ss[<<"site_name", <<>>>>]) ELSE None,
      IF <<"env", <<>>>> \in DOMAIN ss THEN Some(ss[<<"env", <<>>>>]) ELSE None>>

\* the directory of the stored site and environment exists
StoredDirExists(ss, fs) ==
    /\ Stored(ss)[1].present
    /\ Stored(ss)[2].present
    /\ fs.present
    /\ (Stored(ss)[1].val \o <<"_">> \o Stored(ss)[2].val) \in fs.val

\* this step ends a Collect Logs whose collect_logs has fetched from every
\* server, for a site with a resolved UUID, and stores the widgets' values
CollectCompletes ==
    /\ button = "Collect Logs"
    /\ pc = "collect_logs"
    /\ fetched = app_servers
    /\ site_uuid.present
    /\ \E s \in Sites : s.uuid = site_uuid.val /\ lower(s.name) = lower(site_name)
    /\ Stored(session_state') = <<Some(site_name), Some(env)>>

\* this step is a Clear Logs that removes ~/site-logs
ClearSucceeds ==
    /\ button = "Clear Logs"
    /\ pc = "buttons"
    /\ site_logs.present
    /\ ~site_logs'.present

SessionStep ==
    \* the tabs are rendered only with both set and the directory present
    /\ tabs => StoredDirExists(session_state, site_logs)
    /\ tabs' => StoredDirExists(session_state', site_logs')
    \* site_name and env change only by a completed collection or a successful clear
    /\ Stored(session_state') # Stored(session_state) => CollectCompletes \/ ClearSucceeds
    \* a successful clear removes both
    /\ ClearSucceeds => Stored(session_state') = <<None, None>>
    \* a Collect Logs that does not complete leaves both unchanged
    /\ (button = "Collect Logs" /\ pc' # "gate") => Stored(session_state') = Stored(session_state)
    /\ (button = "Collect Logs" /\ pc = "buttons") => Stored(session_state') = Stored(session_state)

\* C13: over any sequence of Collect Logs, Clear Logs and reruns, site_name and
\* env are set only by a Collect Logs whose collect_logs ran to completion for a
\* site with a resolved UUID, a successful Clear Logs removes both, the tabs
\* are rendered only when both are set and their logs directory exists, and a
\* failing Collect Logs leaves both unchanged.
C13_SessionLifecycle == [][SessionStep]_vars

\* a Collect Logs for site "a" and environment "live" has completed, and the
\* next pass through the gate has rendered the tabs for its directory
C13_Witness ==
    /\ pc = "wait"
    /\ tabs
    /\ Stored(session_state) = <<Some(<<"a">>), Some(<<"l","i","v","e">>)>>
    /\ site_logs = Some({<<"a">> \o <<"_">> \o <<"l","i","v","e">>})

====
